---- MODULE Spec2Model ----
(***************************************************************************)
(* The prefetch cache pipeline of the laff service (service/service.go):   *)
(* the name and joke buffered channels, the name producer and joke         *)
(* composer goroutines of RunCache, the request path Joke(), and the       *)
(* shared cancellation context.                                            *)
(*                                                                         *)
(* One step of a goroutine is one access to shared state (a channel        *)
(* operation, a read or write of an error counter) together with the       *)
(* local code around it.  A Go select with several ready cases picks one   *)
(* of them at random: each ready case is its own action.                   *)
(***************************************************************************)
EXTENDS Integers, Sequences, FiniteSets, TLC

(* ---------------------------------------------------------------- bounds *)
MaxWorkers == 2
MaxBufLen == 2
MaxCallers == 1
\* Goroutines calling Joke() at the same time where the upstreams are healthy.
MaxConcurrentCallers == 2
MaxNames == 2
\* Worker slots in the second-by-second specification and in the
\* specifications with fairness.
MaxTimedWorkers == 1
\* Values of the -workers flag where the pacing interval is studied; the
\* goroutines of the first MaxWorkers worker slots are followed.
MaxConfigWorkers == 7
MaxFairWorkers == 1
\* Saturation values of the two error counters in the specifications that
\* do not study the threshold (the counters are Go ints and do not
\* saturate; below maxErrs a saturated counter behaves like a larger one
\* because the code only ever compares with maxErrs).
NameErrsShown == 1
JokeErrsShown == 1
\* How far above maxErrs the threshold specifications follow a counter.
ErrsOver == 2
\* How far above the quota the fetches of one window are counted.
FetchesOver == 1
\* Names the name service has in store beyond those that fill the pipeline.
NamesOver == 1
\* Seconds between two looks at the clock where the quota is measured.
QuotaTick == 5

(* ------------------------------------------------------ program constants *)
maxErrs == 50
dfltRetry == 90
\* time.Duration(v.retry+5) * time.Second
retrySlop == 5
\* sleepInterval := time.Duration((60 / (6 / ls.numWorkers))) * time.Second
quotaPerMinute == 6
secondsPerMinute == 60
\* net/http status codes generateJoke answers with
StatusOK == 200
StatusTooManyRequests == 429
StatusInternalServerError == 500

Workers == 1..MaxWorkers
\* The goroutines that may call Joke(); SoloCallers are those that do in
\* the specifications where the upstreams may fail.
Callers == 1..(IF MaxCallers > MaxConcurrentCallers
                  THEN MaxCallers ELSE MaxConcurrentCallers)
SoloCallers == 1..MaxCallers

VARIABLES
    numWorkers,   \* LaffService.numWorkers
    bufLen,       \* LaffService.bufLen, the capacity of both channels
    nameChan,     \* LaffService.nameChan, oldest item first
    jokeChan,     \* LaffService.jokeChan, oldest item first
    nameErrs,     \* LaffService.nameErrs
    jokeErrs,     \* LaffService.jokeErrs
    cancelled,    \* ctx.Done() is closed
    panicked,     \* a goroutine panicked: the process is gone
    run,          \* RunCache: "notstarted", "running", "returned"
    nextName,     \* how many names the name service has handed out
    ppc,          \* name producer i: where it is in its loop
    pname,        \* name producer i: the local variable name
    pretry,       \* name producer i: v.retry of the last rateLimitError
    ptimer,       \* name producer i: seconds until its ticker fires
    pwaited,      \* name producer i: seconds it has slept on its ticker
    cpc,          \* joke composer i: where it is in its loop
    cname,        \* joke composer i: the local variable name
    cjoke,        \* joke composer i: the local variable joke
    jpc,          \* Joke() caller k: where the call is
    jname,        \* Joke() caller k: the local variable nm / name
    jres,         \* Joke() caller k: what the call returned
    jnf,          \* Joke() caller k: fetchName calls of this call
    jjf,          \* Joke() caller k: fetchJoke calls of this call
    jpath,        \* Joke() caller k: which select case the call took
    window        \* a 60-second window: the producers' name fetches in it

cfgVars == <<numWorkers, bufLen>>
chanVars == <<nameChan, jokeChan>>
errVars == <<nameErrs, jokeErrs>>
prodVars == <<ppc, pname, pretry, ptimer, pwaited>>
compVars == <<cpc, cname, cjoke>>
callVars == <<jpc, jname, jres, jnf, jjf, jpath>>
vars == <<cfgVars, chanVars, errVars, cancelled, panicked, run, nextName,
          prodVars, compVars, callVars, window>>

(* ------------------------------------------------------------ data model *)
\* A NameResp as the name service returns it: the k-th name handed out.
NameResp(k) == [Name |-> k, Surname |-> k]
NoName == [Name |-> 0, Surname |-> 0]

\* The joke service's answer for firstName, lastName: the joke text names
\* the person it was asked about.
JokeText(nm) == <<nm.Name, nm.Surname>>
NoJoke == <<>>

\* What Joke() returns: (string, error).
RetJoke(j) == [str |-> j, err |-> "nil", retry |-> 0]
RetCanceled == [str |-> NoJoke, err |-> "canceled", retry |-> 0]
RetRateLimit(r) == [str |-> NoJoke, err |-> "ratelimit", retry |-> r]
RetError == [str |-> NoJoke, err |-> "error", retry |-> 0]
NoRet == [str |-> NoJoke, err |-> "none", retry |-> 0]

Min(a, b) == IF a < b THEN a ELSE b
Max(a, b) == IF a > b THEN a ELSE b

\* x++ on an error counter, followed up to cap.
Incr(x, cap) == IF x < cap THEN x + 1 ELSE x

(* ------------------------------------------------- Retry-After and Atoi *)
\* Retry-After header values the name service may send with a 429; the
\* empty sequence is the absent header.
RetryAfterHeaders == { <<>>, <<"x">>, <<"2">>, <<"-", "5">> }

Digits == {"0", "1", "2", "3", "4", "5", "6", "7", "8", "9"}

DigitVal(c) ==
    CASE c = "0" -> 0 [] c = "1" -> 1 [] c = "2" -> 2 [] c = "3" -> 3
      [] c = "4" -> 4 [] c = "5" -> 5 [] c = "6" -> 6 [] c = "7" -> 7
      [] c = "8" -> 8 [] c = "9" -> 9

RECURSIVE DigitsVal(_, _)
DigitsVal(s, acc) ==
    IF s = <<>> THEN acc ELSE DigitsVal(Tail(s), 10 * acc + DigitVal(Head(s)))

\* strconv.Atoi: an optional sign and at least one decimal digit.
Atoi(s) ==
    LET signed == s # <<>> /\ Head(s) \in {"+", "-"}
        body == IF signed THEN Tail(s) ELSE s
        ok == body # <<>> /\ \A n \in 1..Len(body) : body[n] \in Digits
        mag == IF ok THEN DigitsVal(body, 0) ELSE 0
    IN  [err |-> ~ok,
         v |-> IF signed /\ Head(s) = "-" THEN 0 - mag ELSE mag]

\* fetchName on HTTP 429: the retry field of the rateLimitError.
RetryDelay(h) ==
    LET p == Atoi(h) IN IF p.err THEN dfltRetry ELSE p.v

BackoffSeconds_NoSlop(retry) == retry

\* The producer's rate-limit wait, in seconds.
BackoffSeconds(retry) == retry + retrySlop

SleepInterval_Swapped(n) == quotaPerMinute \div (secondsPerMinute \div n)

\* sleepInterval of RunCache, in seconds (Go integer division).
SleepInterval(n) == secondsPerMinute \div (quotaPerMinute \div n)

(* ------------------------------------------------------- the rate quota *)
\* "at most 6 accesses/minute total among all goroutines": a window of
\* secondsPerMinute seconds that may open at any moment, its age in
\* seconds, and the name fetches the producers issued since it opened.
NoWindow == [open |-> FALSE, age |-> 0, fetches |-> 0]

\* A producer's fetchName call: ls.nameTries++ and the request.
Counted(w) ==
    IF w.open
       THEN [w EXCEPT !.fetches = Incr(@, quotaPerMinute + FetchesOver)]
       ELSE w

\* d seconds later.
Aged(w, d) ==
    IF ~w.open THEN w
    ELSE IF w.age + d >= secondsPerMinute THEN NoWindow
    ELSE [w EXCEPT !.age = @ + d]

(* ------------------------------------------------------------------ Init *)
\* The LaffService that New returns, whatever its numWorkers.
NewService ==
    /\ bufLen \in 1..MaxBufLen
    /\ nameChan = <<>>
    /\ jokeChan = <<>>
    /\ nameErrs = 0
    /\ jokeErrs = 0
    /\ cancelled = FALSE
    /\ panicked = FALSE
    /\ run = "notstarted"
    /\ nextName = 0
    /\ ppc = [i \in Workers |-> "none"]
    /\ pname = [i \in Workers |-> NoName]
    /\ pretry = [i \in Workers |-> 0]
    /\ ptimer = [i \in Workers |-> 0]
    /\ pwaited = [i \in Workers |-> 0]
    /\ cpc = [i \in Workers |-> "none"]
    /\ cname = [i \in Workers |-> NoName]
    /\ cjoke = [i \in Workers |-> NoJoke]
    /\ jpc = [k \in Callers |-> "idle"]
    /\ jname = [k \in Callers |-> NoName]
    /\ jres = [k \in Callers |-> NoRet]
    /\ jnf = [k \in Callers |-> 0]
    /\ jjf = [k \in Callers |-> 0]
    /\ jpath = [k \in Callers |-> "none"]
    /\ window = NoWindow

Init == numWorkers \in 1..MaxWorkers /\ NewService

(* ------------------------------------------------ context and RunCache *)
\* cancel() of the context main passes everywhere.
Cancel ==
    /\ ~cancelled
    /\ ~panicked
    /\ cancelled' = TRUE
    /\ UNCHANGED window
    /\ UNCHANGED <<cfgVars, chanVars, errVars, panicked, run, nextName,
                   prodVars, compVars, callVars>>

\* The divisor of the sleepInterval computation is zero.
SleepIntervalPanics(n) == quotaPerMinute \div n = 0

\* go svc.RunCache(ctx): sleepInterval is computed, then the loop starts
\* two goroutines per worker.
RunCacheStart ==
    /\ run = "notstarted"
    /\ ~SleepIntervalPanics(numWorkers)
    /\ run' = "running"
    /\ ppc' = [i \in Workers |-> IF i <= numWorkers THEN "fetch" ELSE "none"]
    /\ cpc' = [i \in Workers |-> IF i <= numWorkers THEN "pop" ELSE "none"]
    /\ UNCHANGED window
    /\ UNCHANGED <<cfgVars, chanVars, errVars, cancelled, panicked, nextName,
                   pname, pretry, ptimer, pwaited, cname, cjoke, callVars>>

\* go svc.RunCache(ctx) where the sleepInterval computation divides by
\* zero: a run-time panic in RunCache's goroutine ends the process.
RunCachePanics ==
    /\ run = "notstarted"
    /\ SleepIntervalPanics(numWorkers)
    /\ panicked' = TRUE
    /\ run' = "crashed"
    /\ ppc' = [w \in Workers |-> "crashed"]
    /\ cpc' = [w \in Workers |-> "crashed"]
    /\ jpc' = [k \in Callers |-> "crashed"]
    /\ UNCHANGED window
    /\ UNCHANGED <<cfgVars, chanVars, errVars, cancelled, nextName, pname,
                   pretry, ptimer, pwaited, cname, cjoke, jname, jres, jnf,
                   jjf, jpath>>

AllWorkersExited_ProducersOnly == \A i \in 1..numWorkers : ppc[i] = "exited"

\* wg.Wait(): every goroutine has run its deferred wg.Done().
AllWorkersExited ==
    \A i \in 1..numWorkers : ppc[i] = "exited" /\ cpc[i] = "exited"

\* wg.Wait() returns and RunCache with it.
RunCacheReturn ==
    /\ run = "running"
    /\ AllWorkersExited
    /\ run' = "returned"
    /\ UNCHANGED window
    /\ UNCHANGED <<cfgVars, chanVars, errVars, cancelled, panicked, nextName,
                   prodVars, compVars, callVars>>

(* --------------------------------------------------------- name producer *)
\* The first goroutine of each worker slot, service.go lines 125-182.

NameThresholdHit_UpTo == nameErrs <= maxErrs

\* if ls.nameErrs == maxErrs
NameThresholdHit == nameErrs = maxErrs

\* fetchName returned a name, one of the first lim the name service hands
\* out: the producer goes on to the push select.
P_FetchOKUpTo(i, lim) ==
    /\ ppc[i] = "fetch"
    /\ ~cancelled
    /\ nextName < lim
    /\ nextName' = nextName + 1
    /\ pname' = [pname EXCEPT ![i] = NameResp(nextName + 1)]
    /\ ppc' = [ppc EXCEPT ![i] = "push"]
    /\ window' = Counted(window)
    /\ UNCHANGED <<cfgVars, chanVars, errVars, cancelled, panicked, run,
                   pretry, ptimer, pwaited, compVars, callVars>>

P_FetchOK(i) == P_FetchOKUpTo(i, MaxNames)

\* fetchName returned rateLimitError{retry}: a ticker of retry+5 seconds is
\* made (time.NewTicker panics on a duration that is not positive) and the
\* producer waits on it or on ctx.Done().  A panic in a goroutine ends
\* the process, and every goroutine with it.
P_FetchRateLimited(i, h) ==
    /\ ppc[i] = "fetch"
    /\ ~cancelled
    /\ LET retry == RetryDelay(h)
           d == BackoffSeconds(retry)
       IN  IF d <= 0
              THEN /\ panicked' = TRUE
                   /\ run' = "crashed"
                   /\ ppc' = [w \in Workers |-> "crashed"]
                   /\ cpc' = [w \in Workers |-> "crashed"]
                   /\ jpc' = [k \in Callers |-> "crashed"]
                   /\ pretry' = [pretry EXCEPT ![i] = retry]
                   /\ UNCHANGED <<ptimer, pwaited>>
              ELSE /\ ppc' = [ppc EXCEPT ![i] = "backoff"]
                   /\ pretry' = [pretry EXCEPT ![i] = retry]
                   /\ ptimer' = [ptimer EXCEPT ![i] = d]
                   /\ pwaited' = [pwaited EXCEPT ![i] = 0]
                   /\ UNCHANGED <<panicked, run, cpc, jpc>>
    /\ window' = Counted(window)
    /\ UNCHANGED <<cfgVars, chanVars, errVars, cancelled, nextName, pname,
                   cname, cjoke, jname, jres, jnf, jjf, jpath>>

\* fetchName returned any other error (the only outcome once the context
\* is cancelled): ls.nameErrs++.
P_FetchFailed(i, cap) ==
    /\ ppc[i] = "fetch"
    /\ nameErrs' = Incr(nameErrs, cap)
    /\ ppc' = [ppc EXCEPT ![i] = "check"]
    /\ window' = IF cancelled THEN window ELSE Counted(window)
    /\ UNCHANGED <<cfgVars, chanVars, jokeErrs, cancelled, panicked, run,
                   nextName, pname, pretry, ptimer, pwaited, compVars,
                   callVars>>

\* ls.nameErrs++ is a read and a write with no synchronisation: two
\* producers whose fetchName failed may both read the counter before either
\* writes it, and then both write the same value.
P_FetchFailedRacing(i, j, cap) ==
    /\ i # j
    /\ ppc[i] = "fetch"
    /\ ppc[j] = "fetch"
    /\ nameErrs' = Incr(nameErrs, cap)
    /\ ppc' = [ppc EXCEPT ![i] = "check", ![j] = "check"]
    /\ window' = IF cancelled THEN window ELSE Counted(Counted(window))
    /\ UNCHANGED <<cfgVars, chanVars, jokeErrs, cancelled, panicked, run,
                   nextName, pname, pretry, ptimer, pwaited, compVars,
                   callVars>>

\* if ls.nameErrs == maxErrs { return }; goto Loop
P_CheckErrs(i) ==
    /\ ppc[i] = "check"
    /\ ppc' = [ppc EXCEPT ![i] = IF NameThresholdHit THEN "exited" ELSE "fetch"]
    /\ UNCHANGED window
    /\ UNCHANGED <<cfgVars, chanVars, errVars, cancelled, panicked, run,
                   nextName, pname, pretry, ptimer, pwaited, compVars,
                   callVars>>

P_Push_Unbounded(i) ==
    /\ ppc[i] = "push"
    /\ nameChan' = Append(nameChan, pname[i])
    /\ pname' = [pname EXCEPT ![i] = NoName]
    /\ ppc' = [ppc EXCEPT ![i] = "pace"]
    /\ ptimer' = [ptimer EXCEPT ![i] = SleepInterval(numWorkers)]
    /\ pwaited' = [pwaited EXCEPT ![i] = 0]
    /\ UNCHANGED window
    /\ UNCHANGED <<cfgVars, jokeChan, errVars, cancelled, panicked, run,
                   nextName, pretry, compVars, callVars>>

P_Push_Overwrite(i) ==
    /\ ppc[i] = "push"
    /\ nameChan' = IF Len(nameChan) < bufLen
                       THEN Append(nameChan, pname[i])
                       ELSE [nameChan EXCEPT ![bufLen] = pname[i]]
    /\ pname' = [pname EXCEPT ![i] = NoName]
    /\ ppc' = [ppc EXCEPT ![i] = "pace"]
    /\ ptimer' = [ptimer EXCEPT ![i] = SleepInterval(numWorkers)]
    /\ pwaited' = [pwaited EXCEPT ![i] = 0]
    /\ UNCHANGED window
    /\ UNCHANGED <<cfgVars, jokeChan, errVars, cancelled, panicked, run,
                   nextName, pretry, compVars, callVars>>

\* case ls.nameChan <- name, then the pacing ticker is made.
P_Push(i) ==
    /\ ppc[i] = "push"
    /\ Len(nameChan) < bufLen
    /\ nameChan' = Append(nameChan, pname[i])
    /\ pname' = [pname EXCEPT ![i] = NoName]
    /\ ppc' = [ppc EXCEPT ![i] = "pace"]
    /\ ptimer' = [ptimer EXCEPT ![i] = SleepInterval(numWorkers)]
    /\ pwaited' = [pwaited EXCEPT ![i] = 0]
    /\ UNCHANGED window
    /\ UNCHANGED <<cfgVars, jokeChan, errVars, cancelled, panicked, run,
                   nextName, pretry, compVars, callVars>>

\* case <-ctx.Done(): return, in the push select or in either ticker select.
P_Done(i) ==
    /\ ppc[i] \in {"push", "pace", "backoff"}
    /\ cancelled
    /\ ppc' = [ppc EXCEPT ![i] = "exited"]
    /\ pname' = [pname EXCEPT ![i] = NoName]
    /\ pretry' = [pretry EXCEPT ![i] = 0]
    /\ ptimer' = [ptimer EXCEPT ![i] = 0]
    /\ pwaited' = [pwaited EXCEPT ![i] = 0]
    /\ UNCHANGED window
    /\ UNCHANGED <<cfgVars, chanVars, errVars, cancelled, panicked, run,
                   nextName, compVars, callVars>>

\* case <-ticker.C of the rate-limit wait (goto Loop) or of the pacing wait.
P_TickerFired(i) ==
    /\ ppc[i] \in {"pace", "backoff"}
    /\ ptimer[i] = 0
    /\ ppc' = [ppc EXCEPT ![i] = "fetch"]
    /\ pretry' = [pretry EXCEPT ![i] = 0]
    /\ pwaited' = [pwaited EXCEPT ![i] = 0]
    /\ UNCHANGED window
    /\ UNCHANGED <<cfgVars, chanVars, errVars, cancelled, panicked, run,
                   nextName, pname, ptimer, compVars, callVars>>

\* d seconds pass: every running ticker comes d seconds closer to firing.
Tick(d) ==
    /\ \E i \in Workers : ppc[i] \in {"pace", "backoff"} /\ ptimer[i] > 0
    /\ ptimer' = [i \in Workers |-> Max(0, ptimer[i] - d)]
    /\ pwaited' = [i \in Workers |-> pwaited[i] + Min(d, ptimer[i])]
    /\ window' = Aged(window, d)
    /\ UNCHANGED <<cfgVars, chanVars, errVars, cancelled, panicked, run,
                   nextName, ppc, pname, pretry, compVars, callVars>>

(* --------------------------------------------------------- joke composer *)
\* The second goroutine of each worker slot, service.go lines 187-220.

\* The test that ends the composer's retry loop: if ls.nameErrs == maxErrs
ComposerGivesUp == nameErrs = maxErrs

C_Pop_Newest(i) ==
    /\ cpc[i] = "pop"
    /\ nameChan # <<>>
    /\ cname' = [cname EXCEPT ![i] = nameChan[Len(nameChan)]]
    /\ nameChan' = SubSeq(nameChan, 1, Len(nameChan) - 1)
    /\ cpc' = [cpc EXCEPT ![i] = "fetch"]
    /\ UNCHANGED window
    /\ UNCHANGED <<cfgVars, jokeChan, errVars, cancelled, panicked, run,
                   nextName, prodVars, cjoke, callVars>>

\* case name = <-ls.nameChan
C_Pop(i) ==
    /\ cpc[i] = "pop"
    /\ nameChan # <<>>
    /\ cname' = [cname EXCEPT ![i] = Head(nameChan)]
    /\ nameChan' = Tail(nameChan)
    /\ cpc' = [cpc EXCEPT ![i] = "fetch"]
    /\ UNCHANGED window
    /\ UNCHANGED <<cfgVars, jokeChan, errVars, cancelled, panicked, run,
                   nextName, prodVars, cjoke, callVars>>

C_FetchOK_NoName(i) ==
    /\ cpc[i] = "fetch"
    /\ ~cancelled
    /\ cjoke' = [cjoke EXCEPT ![i] = JokeText(NoName)]
    /\ cpc' = [cpc EXCEPT ![i] = "push"]
    /\ UNCHANGED window
    /\ UNCHANGED <<cfgVars, chanVars, errVars, cancelled, panicked, run,
                   nextName, prodVars, cname, callVars>>

\* fetchJoke(ctx, name) returned the joke: break out of the retry loop.
C_FetchOK(i) ==
    /\ cpc[i] = "fetch"
    /\ ~cancelled
    /\ cjoke' = [cjoke EXCEPT ![i] = JokeText(cname[i])]
    /\ cpc' = [cpc EXCEPT ![i] = "push"]
    /\ UNCHANGED window
    /\ UNCHANGED <<cfgVars, chanVars, errVars, cancelled, panicked, run,
                   nextName, prodVars, cname, callVars>>

\* fetchJoke returned an error (the only outcome once the context is
\* cancelled): ls.jokeErrs++.
C_FetchFailed(i, cap) ==
    /\ cpc[i] = "fetch"
    /\ jokeErrs' = Incr(jokeErrs, cap)
    /\ cpc' = [cpc EXCEPT ![i] = "check"]
    /\ UNCHANGED window
    /\ UNCHANGED <<cfgVars, chanVars, nameErrs, cancelled, panicked, run,
                   nextName, prodVars, cname, cjoke, callVars>>

C_CheckErrs_NextName(i) ==
    /\ cpc[i] = "check"
    /\ IF ComposerGivesUp
          THEN cpc' = [cpc EXCEPT ![i] = "exited"]
          ELSE cpc' = [cpc EXCEPT ![i] = "pop"]
    /\ cname' = [cname EXCEPT ![i] = NoName]
    /\ UNCHANGED window
    /\ UNCHANGED <<cfgVars, chanVars, errVars, cancelled, panicked, run,
                   nextName, prodVars, cjoke, callVars>>

\* if ls.nameErrs == maxErrs { return }; continue, with the same name
C_CheckErrs(i) ==
    /\ cpc[i] = "check"
    /\ IF ComposerGivesUp
          THEN /\ cpc' = [cpc EXCEPT ![i] = "exited"]
               /\ cname' = [cname EXCEPT ![i] = NoName]
          ELSE /\ cpc' = [cpc EXCEPT ![i] = "fetch"]
               /\ UNCHANGED cname
    /\ UNCHANGED window
    /\ UNCHANGED <<cfgVars, chanVars, errVars, cancelled, panicked, run,
                   nextName, prodVars, cjoke, callVars>>

C_Push_Drop(i) ==
    /\ cpc[i] = "push"
    /\ jokeChan' = IF Len(jokeChan) < bufLen
                       THEN Append(jokeChan, cjoke[i])
                       ELSE jokeChan
    /\ cpc' = [cpc EXCEPT ![i] = "pop"]
    /\ cname' = [cname EXCEPT ![i] = NoName]
    /\ cjoke' = [cjoke EXCEPT ![i] = NoJoke]
    /\ UNCHANGED window
    /\ UNCHANGED <<cfgVars, nameChan, errVars, cancelled, panicked, run,
                   nextName, prodVars, callVars>>

\* case ls.jokeChan <- joke
C_Push(i) ==
    /\ cpc[i] = "push"
    /\ Len(jokeChan) < bufLen
    /\ jokeChan' = Append(jokeChan, cjoke[i])
    /\ cpc' = [cpc EXCEPT ![i] = "pop"]
    /\ cname' = [cname EXCEPT ![i] = NoName]
    /\ cjoke' = [cjoke EXCEPT ![i] = NoJoke]
    /\ UNCHANGED window
    /\ UNCHANGED <<cfgVars, nameChan, errVars, cancelled, panicked, run,
                   nextName, prodVars, callVars>>

\* case <-ctx.Done(): return, in the pop select or in the push select.
C_Done(i) ==
    /\ cpc[i] \in {"pop", "push"}
    /\ cancelled
    /\ cpc' = [cpc EXCEPT ![i] = "exited"]
    /\ cname' = [cname EXCEPT ![i] = NoName]
    /\ cjoke' = [cjoke EXCEPT ![i] = NoJoke]
    /\ UNCHANGED window
    /\ UNCHANGED <<cfgVars, chanVars, errVars, cancelled, panicked, run,
                   nextName, prodVars, callVars>>

(* ------------------------------------------------------- Joke(), per call *)
\* LaffService.Joke, service.go lines 233-258.  The outer select has the
\* cases ctx.Done(), a receive from jokeChan, and default; the inner select
\* has a receive from nameChan and default.

\* case <-ctx.Done(): return "", context.Canceled
J_Canceled(k) ==
    /\ jpc[k] = "idle"
    /\ cancelled
    /\ jpc' = [jpc EXCEPT ![k] = "done"]
    /\ jres' = [jres EXCEPT ![k] = RetCanceled]
    /\ jpath' = [jpath EXCEPT ![k] = "canceled"]
    /\ UNCHANGED window
    /\ UNCHANGED <<cfgVars, chanVars, errVars, cancelled, panicked, run,
                   nextName, prodVars, compVars, jname, jnf, jjf>>

J_CacheHit_Peek(k) ==
    /\ jpc[k] = "idle"
    /\ jokeChan # <<>>
    /\ jpc' = [jpc EXCEPT ![k] = "done"]
    /\ jres' = [jres EXCEPT ![k] = RetJoke(Head(jokeChan))]
    /\ jpath' = [jpath EXCEPT ![k] = "hit"]
    /\ UNCHANGED window
    /\ UNCHANGED <<cfgVars, chanVars, errVars, cancelled, panicked, run,
                   nextName, prodVars, compVars, jname, jnf, jjf>>

\* case jk := <-ls.jokeChan: return jk, nil
J_CacheHit(k) ==
    /\ jpc[k] = "idle"
    /\ jokeChan # <<>>
    /\ jokeChan' = Tail(jokeChan)
    /\ jpc' = [jpc EXCEPT ![k] = "done"]
    /\ jres' = [jres EXCEPT ![k] = RetJoke(Head(jokeChan))]
    /\ jpath' = [jpath EXCEPT ![k] = "hit"]
    /\ UNCHANGED window
    /\ UNCHANGED <<cfgVars, nameChan, errVars, cancelled, panicked, run,
                   nextName, prodVars, compVars, jname, jnf, jjf>>

\* default: of the outer select, taken only when no other case is ready.
J_NoJoke(k) ==
    /\ jpc[k] = "idle"
    /\ ~cancelled
    /\ jokeChan = <<>>
    /\ jpc' = [jpc EXCEPT ![k] = "inner"]
    /\ UNCHANGED window
    /\ UNCHANGED <<cfgVars, chanVars, errVars, cancelled, panicked, run,
                   nextName, prodVars, compVars, jname, jres, jnf, jjf,
                   jpath>>

J_NameHit_Peek(k) ==
    /\ jpc[k] = "inner"
    /\ nameChan # <<>>
    /\ jname' = [jname EXCEPT ![k] = Head(nameChan)]
    /\ jpc' = [jpc EXCEPT ![k] = "fetchJoke"]
    /\ jpath' = [jpath EXCEPT ![k] = "partial"]
    /\ UNCHANGED window
    /\ UNCHANGED <<cfgVars, chanVars, errVars, cancelled, panicked, run,
                   nextName, prodVars, compVars, jres, jnf, jjf>>

J_NameHit_Newest(k) ==
    /\ jpc[k] = "inner"
    /\ nameChan # <<>>
    /\ jname' = [jname EXCEPT ![k] = nameChan[Len(nameChan)]]
    /\ nameChan' = SubSeq(nameChan, 1, Len(nameChan) - 1)
    /\ jpc' = [jpc EXCEPT ![k] = "fetchJoke"]
    /\ jpath' = [jpath EXCEPT ![k] = "partial"]
    /\ UNCHANGED window
    /\ UNCHANGED <<cfgVars, jokeChan, errVars, cancelled, panicked, run,
                   nextName, prodVars, compVars, jres, jnf, jjf>>

\* case nm := <-ls.nameChan: return ls.fetchJoke(ctx, nm)
J_NameHit(k) ==
    /\ jpc[k] = "inner"
    /\ nameChan # <<>>
    /\ jname' = [jname EXCEPT ![k] = Head(nameChan)]
    /\ nameChan' = Tail(nameChan)
    /\ jpc' = [jpc EXCEPT ![k] = "fetchJoke"]
    /\ jpath' = [jpath EXCEPT ![k] = "partial"]
    /\ UNCHANGED window
    /\ UNCHANGED <<cfgVars, jokeChan, errVars, cancelled, panicked, run,
                   nextName, prodVars, compVars, jres, jnf, jjf>>

J_NoName_Blocks(k) ==
    /\ jpc[k] = "inner"
    /\ FALSE
    /\ UNCHANGED vars

\* default: of the inner select: fetch the name and the joke directly.
J_NoName(k) ==
    /\ jpc[k] = "inner"
    /\ nameChan = <<>>
    /\ jpc' = [jpc EXCEPT ![k] = "fetchName"]
    /\ jpath' = [jpath EXCEPT ![k] = "miss"]
    /\ UNCHANGED window
    /\ UNCHANGED <<cfgVars, chanVars, errVars, cancelled, panicked, run,
                   nextName, prodVars, compVars, jname, jres, jnf, jjf>>

\* name, err := ls.fetchName(ctx) with err == nil
J_FetchNameOK(k) ==
    /\ jpc[k] = "fetchName"
    /\ ~cancelled
    /\ nextName < MaxNames
    /\ nextName' = nextName + 1
    /\ jname' = [jname EXCEPT ![k] = NameResp(nextName + 1)]
    /\ jnf' = [jnf EXCEPT ![k] = @ + 1]
    /\ jpc' = [jpc EXCEPT ![k] = "fetchJoke"]
    /\ UNCHANGED window
    /\ UNCHANGED <<cfgVars, chanVars, errVars, cancelled, panicked, run,
                   prodVars, compVars, jres, jjf, jpath>>

J_FetchNameRateLimited_Slop(k, h) ==
    /\ jpc[k] = "fetchName"
    /\ ~cancelled
    /\ jnf' = [jnf EXCEPT ![k] = @ + 1]
    /\ jres' = [jres EXCEPT ![k] = RetRateLimit(BackoffSeconds(RetryDelay(h)))]
    /\ jpc' = [jpc EXCEPT ![k] = "done"]
    /\ UNCHANGED window
    /\ UNCHANGED <<cfgVars, chanVars, errVars, cancelled, panicked, run,
                   nextName, prodVars, compVars, jname, jjf, jpath>>

\* fetchName returned rateLimitError{retry}: return "", err
J_FetchNameRateLimited(k, h) ==
    /\ jpc[k] = "fetchName"
    /\ ~cancelled
    /\ jnf' = [jnf EXCEPT ![k] = @ + 1]
    /\ jres' = [jres EXCEPT ![k] = RetRateLimit(RetryDelay(h))]
    /\ jpc' = [jpc EXCEPT ![k] = "done"]
    /\ UNCHANGED window
    /\ UNCHANGED <<cfgVars, chanVars, errVars, cancelled, panicked, run,
                   nextName, prodVars, compVars, jname, jjf, jpath>>

J_FetchNameFailed_Counted(k) ==
    /\ jpc[k] = "fetchName"
    /\ jnf' = [jnf EXCEPT ![k] = @ + 1]
    /\ jres' = [jres EXCEPT ![k] = RetError]
    /\ jpc' = [jpc EXCEPT ![k] = "done"]
    /\ nameErrs' = Incr(nameErrs, NameErrsShown)
    /\ UNCHANGED window
    /\ UNCHANGED <<cfgVars, chanVars, jokeErrs, cancelled, panicked, run,
                   nextName, prodVars, compVars, jname, jjf, jpath>>

\* fetchName returned any other error: return "", err
J_FetchNameFailed(k) ==
    /\ jpc[k] = "fetchName"
    /\ jnf' = [jnf EXCEPT ![k] = @ + 1]
    /\ jres' = [jres EXCEPT ![k] = RetError]
    /\ jpc' = [jpc EXCEPT ![k] = "done"]
    /\ UNCHANGED window
    /\ UNCHANGED <<cfgVars, chanVars, errVars, cancelled, panicked, run,
                   nextName, prodVars, compVars, jname, jjf, jpath>>

J_FetchJokeOK_NoName(k) ==
    /\ jpc[k] = "fetchJoke"
    /\ ~cancelled
    /\ jjf' = [jjf EXCEPT ![k] = @ + 1]
    /\ jres' = [jres EXCEPT ![k] = RetJoke(JokeText(NoName))]
    /\ jpc' = [jpc EXCEPT ![k] = "done"]
    /\ UNCHANGED window
    /\ UNCHANGED <<cfgVars, chanVars, errVars, cancelled, panicked, run,
                   nextName, prodVars, compVars, jname, jnf, jpath>>

\* return ls.fetchJoke(ctx, name) with the joke
J_FetchJokeOK(k) ==
    /\ jpc[k] = "fetchJoke"
    /\ ~cancelled
    /\ jjf' = [jjf EXCEPT ![k] = @ + 1]
    /\ jres' = [jres EXCEPT ![k] = RetJoke(JokeText(jname[k]))]
    /\ jpc' = [jpc EXCEPT ![k] = "done"]
    /\ UNCHANGED window
    /\ UNCHANGED <<cfgVars, chanVars, errVars, cancelled, panicked, run,
                   nextName, prodVars, compVars, jname, jnf, jpath>>

\* return ls.fetchJoke(ctx, name) with an error
J_FetchJokeFailed_Requeue(k) ==
    /\ jpc[k] = "fetchJoke"
    /\ jjf' = [jjf EXCEPT ![k] = @ + 1]
    /\ jres' = [jres EXCEPT ![k] = RetError]
    /\ jpc' = [jpc EXCEPT ![k] = "done"]
    /\ nameChan' = IF jpath[k] = "partial" /\ Len(nameChan) < bufLen
                      THEN Append(nameChan, jname[k])
                      ELSE nameChan
    /\ UNCHANGED window
    /\ UNCHANGED <<cfgVars, jokeChan, errVars, cancelled, panicked, run,
                   nextName, prodVars, compVars, jname, jnf, jpath>>

J_FetchJokeFailed(k) ==
    /\ jpc[k] = "fetchJoke"
    /\ jjf' = [jjf EXCEPT ![k] = @ + 1]
    /\ jres' = [jres EXCEPT ![k] = RetError]
    /\ jpc' = [jpc EXCEPT ![k] = "done"]
    /\ UNCHANGED window
    /\ UNCHANGED <<cfgVars, chanVars, errVars, cancelled, panicked, run,
                   nextName, prodVars, compVars, jname, jnf, jpath>>

\* The caller has its answer; its goroutine may call Joke() again.
J_Return(k) ==
    /\ jpc[k] = "done"
    /\ jpc' = [jpc EXCEPT ![k] = "idle"]
    /\ jname' = [jname EXCEPT ![k] = NoName]
    /\ jres' = [jres EXCEPT ![k] = NoRet]
    /\ jnf' = [jnf EXCEPT ![k] = 0]
    /\ jjf' = [jjf EXCEPT ![k] = 0]
    /\ jpath' = [jpath EXCEPT ![k] = "none"]
    /\ UNCHANGED window
    /\ UNCHANGED <<cfgVars, chanVars, errVars, cancelled, panicked, run,
                   nextName, prodVars, compVars>>

(* ------------------------------------------------------ the HTTP endpoint *)
\* _, ok := err.(service.RateLimitError): the error Joke() returned is the
\* rate-limit error of the name fetch.
IsRateLimitError(ret) == ret.err = "ratelimit"

generateJoke_NoRateLimit(ret) ==
    IF ret.err # "nil"
       THEN [code |-> StatusInternalServerError,
             body |-> <<"status", ret.err>>]
       ELSE [code |-> StatusOK, body |-> <<ret.str, "\n">>]

\* apiImpl.generateJoke: the response written for what Joke() returned,
\* an error as a JSON StatusResponse, a joke as the text and a newline.
generateJoke(ret) ==
    IF ret.err # "nil"
       THEN IF IsRateLimitError(ret)
               THEN [code |-> StatusTooManyRequests,
                     body |-> <<"status", ret.err>>]
               ELSE [code |-> StatusInternalServerError,
                     body |-> <<"status", ret.err>>]
       ELSE [code |-> StatusOK, body |-> <<ret.str, "\n">>]

(* ------------------------------------------------------ the quota window *)
\* A window of secondsPerMinute seconds starts now.
OpenWindow ==
    /\ ~window.open
    /\ window' = [open |-> TRUE, age |-> 0, fetches |-> 0]
    /\ UNCHANGED <<cfgVars, chanVars, errVars, cancelled, panicked, run,
                   nextName, prodVars, compVars, callVars>>

(* -------------------------------------------------------- specifications *)
\* The longest wait a ticker of the model is made with.
LongestWait == Max(BackoffSeconds(dfltRetry), secondsPerMinute)

Producer(i, cap) ==
    \/ P_FetchOK(i)
    \/ \E h \in RetryAfterHeaders : P_FetchRateLimited(i, h)
    \/ P_FetchFailed(i, cap)
    \/ P_CheckErrs(i)
    \/ P_Push(i)
    \/ P_Done(i)
    \/ P_TickerFired(i)

Composer(i, cap) ==
    \/ C_Pop(i)
    \/ C_FetchOK(i)
    \/ C_FetchFailed(i, cap)
    \/ C_CheckErrs(i)
    \/ C_Push(i)
    \/ C_Done(i)

Caller(k) ==
    \/ J_Canceled(k)
    \/ J_CacheHit(k)
    \/ J_NoJoke(k)
    \/ J_NameHit(k)
    \/ J_NoName(k)
    \/ J_FetchNameOK(k)
    \/ \E h \in RetryAfterHeaders : J_FetchNameRateLimited(k, h)
    \/ J_FetchNameFailed(k)
    \/ J_FetchJokeOK(k)
    \/ J_FetchJokeFailed(k)
    \/ J_Return(k)

\* The background pipeline with its context.
Cache(ncap, jcap) ==
    \/ RunCacheStart
    \/ RunCacheReturn
    \/ Cancel
    \/ \E i \in Workers : Producer(i, ncap)
    \/ \E i \in Workers : Composer(i, jcap)

\* The whole service; time passes in waits that end every running ticker.
Next ==
    \/ Cache(NameErrsShown, JokeErrsShown)
    \/ \E k \in SoloCallers : Caller(k)
    \/ Tick(LongestWait)

Spec == Init /\ [][Next]_vars

\* The background pipeline alone, its name-stage counter followed past the
\* threshold.
NextNameStage ==
    \/ Cache(maxErrs + ErrsOver, JokeErrsShown)
    \/ Tick(LongestWait)

NameStageSpec == Init /\ [][NextNameStage]_vars

\* The background pipeline alone, the name-stage counter followed past the
\* threshold, with the outcome of two increments that overlap.
NextRace ==
    \/ Cache(maxErrs + ErrsOver, JokeErrsShown)
    \/ \E i, j \in Workers : P_FetchFailedRacing(i, j, maxErrs + ErrsOver)
    \/ Tick(LongestWait)

RaceSpec == Init /\ [][NextRace]_vars

\* The background pipeline alone, its joke-stage counter followed past the
\* threshold.
NextJokeStage ==
    \/ Cache(NameErrsShown, maxErrs + ErrsOver)
    \/ Tick(LongestWait)

JokeStageSpec == Init /\ [][NextJokeStage]_vars

\* The background pipeline alone, time passing second by second.
NextTimed ==
    \/ Cache(NameErrsShown, JokeErrsShown)
    \/ Tick(1)

TimedInit == Init /\ numWorkers <= MaxTimedWorkers

TimedSpec == TimedInit /\ [][NextTimed]_vars

\* The background pipeline with a window any 60 seconds of the run can be
\* measured in.
NextQuota ==
    \/ Cache(NameErrsShown, JokeErrsShown)
    \/ Tick(QuotaTick)
    \/ OpenWindow

QuotaSpec == TimedInit /\ [][NextQuota]_vars

\* The name producers for every value of the -workers flag up to
\* MaxConfigWorkers, with a name service that always answers 200 and
\* composers that keep nameChan drained.
ConfigInit == numWorkers \in 1..MaxConfigWorkers /\ NewService

NextConfig ==
    \/ RunCacheStart
    \/ RunCachePanics
    \/ Cancel
    \/ \E i \in Workers : P_FetchOK(i) \/ P_Push(i) \/ P_Done(i)
                               \/ P_TickerFired(i)
    \/ \E i \in Workers : C_Pop(i) \/ C_FetchOK(i) \/ C_Push(i) \/ C_Done(i)
    \/ Tick(QuotaTick)

ConfigSpec == ConfigInit /\ [][NextConfig]_vars

\* Every goroutine of RunCache that can take a step eventually takes one,
\* and so does RunCache itself once wg.Wait() can return.
CacheFairness ==
    /\ \A i \in Workers : WF_vars(Producer(i, maxErrs + ErrsOver))
    /\ \A i \in Workers : WF_vars(Composer(i, JokeErrsShown))
    /\ WF_vars(RunCacheReturn)

\* The whole service; only the callers' goroutines are sure to be
\* scheduled, the background goroutines may stall at any point.
FairInit == Init /\ numWorkers <= MaxFairWorkers

FairCallSpec ==
    FairInit /\ [][Next]_vars /\ \A k \in SoloCallers : WF_vars(Caller(k))

FairCacheSpec == FairInit /\ [][NextNameStage]_vars /\ CacheFairness

\* The whole service with upstreams that always answer 200: a fetch fails
\* only because its context is cancelled.
HealthyProducer(i) ==
    \/ P_FetchOK(i)
    \/ cancelled /\ P_FetchFailed(i, NameErrsShown)
    \/ P_CheckErrs(i)
    \/ P_Push(i)
    \/ P_Done(i)
    \/ P_TickerFired(i)

HealthyComposer(i) ==
    \/ C_Pop(i)
    \/ C_FetchOK(i)
    \/ cancelled /\ C_FetchFailed(i, JokeErrsShown)
    \/ C_CheckErrs(i)
    \/ C_Push(i)
    \/ C_Done(i)

HealthyCaller(k) ==
    \/ J_Canceled(k)
    \/ J_CacheHit(k)
    \/ J_NoJoke(k)
    \/ J_NameHit(k)
    \/ J_NoName(k)
    \/ J_FetchNameOK(k)
    \/ cancelled /\ J_FetchNameFailed(k)
    \/ J_FetchJokeOK(k)
    \/ cancelled /\ J_FetchJokeFailed(k)
    \/ J_Return(k)

NextHealthy ==
    \/ RunCacheStart
    \/ RunCacheReturn
    \/ Cancel
    \/ \E i \in Workers : HealthyProducer(i)
    \/ \E i \in Workers : HealthyComposer(i)
    \/ \E k \in Callers : HealthyCaller(k)
    \/ Tick(LongestWait)

HealthySpec == Init /\ [][NextHealthy]_vars

\* The background pipeline alone with upstreams that always answer 200,
\* nobody calling Joke() and no cancellation; every goroutine that can
\* take a step eventually takes one and time passes.
FillNames == 2 * MaxBufLen + 2 * MaxWorkers + NamesOver

FillProducer(i) ==
    \/ P_FetchOKUpTo(i, FillNames)
    \/ P_Push(i)
    \/ P_TickerFired(i)

FillComposer(i) ==
    \/ C_Pop(i)
    \/ C_FetchOK(i)
    \/ C_Push(i)

NextFill ==
    \/ RunCacheStart
    \/ \E i \in Workers : FillProducer(i)
    \/ \E i \in Workers : FillComposer(i)
    \/ Tick(LongestWait)

FillSpec ==
    /\ Init
    /\ [][NextFill]_vars
    /\ WF_vars(RunCacheStart)
    /\ \A i \in Workers : WF_vars(FillProducer(i)) /\ WF_vars(FillComposer(i))
    /\ WF_vars(Tick(LongestWait))

(* ================================================================ claims *)

\* C1: once the context is cancelled while RunCache runs, RunCache
\* eventually returns (all its producers and composers have exited).
C1_CancelledCacheReturns == (cancelled /\ run = "running") ~> (run = "returned")

\* A step in which producer i's fetchName call returns.
ProducerFetches(i) ==
    ppc[i] = "fetch" /\ ppc'[i] \in {"push", "backoff", "check"}

\* A step in which composer i's fetchJoke call returns.
ComposerFetches(i) ==
    cpc[i] = "fetch" /\ cpc'[i] \in {"push", "check"}

\* C2: no name producer issues a name fetch in a state where the
\* name-stage error counter has reached maxErrs.
C2_NoNameFetchPastThreshold ==
    [][\A i \in Workers : ProducerFetches(i) => nameErrs < maxErrs]_vars

\* C3: a joke composer issues no joke fetch once the joke-stage error
\* counter has reached maxErrs, whatever the name-stage counter is.
C3_NoJokeFetchPastThreshold ==
    [][\A i \in Workers : ComposerFetches(i) => jokeErrs < maxErrs]_vars

\* A step in which caller k's Joke() call leaves its outer select.
LeavesOuterSelect(k) ==
    jpc[k] = "idle" /\ jpc'[k] \in {"done", "inner"}

\* C4: a Joke() call made after the context was cancelled returns
\* ("", context.Canceled) and takes nothing from either channel.
C4_CancelBeatsCacheHit ==
    [][\A k \in Callers :
          (LeavesOuterSelect(k) /\ cancelled)
             => /\ jpc'[k] = "done"
                /\ jres'[k] = RetCanceled
                /\ UNCHANGED chanVars]_vars

\* C5: a Joke() call whose outer select runs uncancelled with an item in
\* jokeChan returns the head of jokeChan, removes that one item, fetches
\* nothing, leaves nameChan alone and never enters the inner select.
C5_CacheHit ==
    [][\A k \in Callers :
          (LeavesOuterSelect(k) /\ ~cancelled /\ jokeChan # <<>>)
             => /\ jpc'[k] = "done"
                /\ jres'[k] = RetJoke(Head(jokeChan))
                /\ jokeChan' = Tail(jokeChan)
                /\ nameChan' = nameChan
                /\ nextName' = nextName
                /\ jnf'[k] = 0
                /\ jjf'[k] = 0]_vars

\* A cache hit that left a second joke waiting in jokeChan.
C5_Witness ==
    \E k \in Callers :
        /\ jpc[k] = "done"
        /\ jpath[k] = "hit"
        /\ jres[k].err = "nil"
        /\ jokeChan # <<>>
        /\ jres[k].str # Head(jokeChan)
        /\ ~cancelled

\* A step in which caller k's Joke() call leaves its inner select.
LeavesInnerSelect(k) ==
    jpc[k] = "inner" /\ jpc'[k] \in {"fetchJoke", "fetchName"}

\* C6, the select: with a name in nameChan the call takes the head of
\* nameChan and goes to the joke fetch; only with nameChan empty does it
\* go to the name fetch.  Neither touches jokeChan.
C6_InnerSelect(k) ==
    LeavesInnerSelect(k)
       => /\ jokeChan' = jokeChan
          /\ IF nameChan # <<>>
                THEN /\ jpc'[k] = "fetchJoke"
                     /\ jname'[k] = Head(nameChan)
                     /\ nameChan' = Tail(nameChan)
                ELSE /\ jpc'[k] = "fetchName"
                     /\ nameChan' = nameChan

\* C6, the rest of the call: it keeps the name it took, fetches no name
\* and exactly one joke, and returns that fetch's result.
C6_AfterNameHit(k) ==
    jpath[k] = "partial"
       => /\ jnf[k] = 0
          /\ jpc[k] = "fetchJoke" => jjf[k] = 0 /\ jname[k] # NoName
          /\ jpc[k] = "done"
                => /\ jjf[k] = 1
                   /\ jres[k] \in {RetJoke(JokeText(jname[k])), RetError}

\* C6: partial hit.
C6_PartialHit ==
    /\ [][\A k \in Callers :
             /\ C6_InnerSelect(k)
             /\ (jpath[k] = "partial" /\ jpc'[k] \in {"fetchJoke", "done"})
                   => jname'[k] = jname[k]
             /\ (jpath[k] = "partial" /\ jpc[k] = "fetchJoke"
                                       /\ jpc'[k] = "done")
                   => UNCHANGED chanVars]_vars
    /\ [](\A k \in Callers :
             /\ C6_AfterNameHit(k)
             /\ jnf[k] > 0 => jpath[k] = "miss")

\* A partial hit that took the older of two names and returned its joke.
C6_Witness ==
    \E k \in Callers :
        /\ jpc[k] = "done"
        /\ jpath[k] = "partial"
        /\ jres[k] = RetJoke(JokeText(NameResp(1)))
        /\ nameChan = <<NameResp(2)>>

\* C7, the steps of a call that found both channels empty: the name fetch
\* takes the name the service hands out next, the joke fetch is made with
\* that name, and no step touches a channel.
C7_MissSteps(k) ==
    /\ (jpc[k] = "fetchName" /\ jpc'[k] = "fetchJoke")
          => /\ jname'[k] = NameResp(nextName + 1)
             /\ nextName' = nextName + 1
             /\ jnf'[k] = 1
             /\ jjf'[k] = 0
    /\ (jpath[k] = "miss" /\ jpc[k] = "fetchJoke" /\ jpc'[k] = "done")
          => /\ jnf'[k] = 1
             /\ jjf'[k] = 1
             /\ jres'[k] \in {RetJoke(JokeText(jname[k])), RetError}
    /\ (jpc[k] = "idle" /\ jpc'[k] = "inner") => UNCHANGED chanVars
    /\ (jpc[k] = "inner" /\ jpc'[k] = "fetchName") => UNCHANGED chanVars
    /\ (jpc[k] = "fetchName" /\ jpc'[k] \in {"fetchJoke", "done"})
          => UNCHANGED chanVars
    /\ (jpath[k] = "miss" /\ jpc[k] = "fetchJoke" /\ jpc'[k] = "done")
          => UNCHANGED chanVars

\* C7, the outcome: a call that fetched both and met no error returns the
\* joke made from the name it fetched; one that met an error made at most
\* one fetch of each kind.
C7_MissOutcome(k) ==
    (jpath[k] = "miss" /\ jpc[k] = "done")
       => /\ jnf[k] = 1
          /\ jjf[k] <= 1
          /\ jres[k].err = "nil"
                => /\ jjf[k] = 1
                   /\ jname[k] # NoName
                   /\ jres[k].str = JokeText(jname[k])
          /\ (jjf[k] = 1 /\ jres[k].err # "nil") => jres[k] = RetError

\* C7: cache miss.
C7_CacheMiss ==
    /\ [][\A k \in Callers : C7_MissSteps(k)]_vars
    /\ [](\A k \in Callers : C7_MissOutcome(k))

\* A miss served before RunCache was ever started.
C7_Witness ==
    \E k \in Callers :
        /\ run = "notstarted"
        /\ jpc[k] = "done"
        /\ jpath[k] = "miss"
        /\ jres[k] = RetJoke(JokeText(NameResp(1)))
        /\ nameChan = <<>>
        /\ jokeChan = <<>>

\* C8: a producer that got rateLimitError{retry} stays in its wait, pushing
\* nothing, until it fetches again, which is no sooner than retry + 5
\* seconds after the error, or until it returns because of cancellation
\* (or the process dies).
C8_RateLimitPacing ==
    [][\A i \in Workers :
          ppc[i] = "backoff"
             => /\ ppc'[i] \in {"backoff", "fetch", "exited", "crashed"}
                /\ ppc'[i] = "fetch" => pwaited[i] >= pretry[i] + 5
                /\ ppc'[i] = "exited" => cancelled
                /\ ppc'[i] = "backoff" => pretry'[i] = pretry[i]]_vars

\* A producer two seconds short of the end of a Retry-After: 2 wait.
C8_Witness ==
    \E i \in Workers :
        ppc[i] = "backoff" /\ pretry[i] = 2 /\ pwaited[i] = 5 /\ ptimer[i] = 2

\* C9: a rateLimitError changes neither error counter, and a producer that
\* gets one goes into its rate-limit wait and leaves it only to fetch again
\* or, once the context is cancelled, to return; a producer returns only
\* on cancellation or right after counting an error of its own.
C9_RateLimitNotCounted ==
    [][\A i \in Workers :
          /\ (ppc[i] = "fetch" /\ ppc'[i] \notin {"fetch", "push", "check"})
                => ppc'[i] = "backoff" /\ UNCHANGED errVars
          /\ (ppc[i] = "backoff" /\ ppc'[i] # "backoff")
                => /\ UNCHANGED errVars
                   /\ ppc'[i] = "fetch" \/ (cancelled /\ ppc'[i] = "exited")
          /\ (ppc[i] \notin {"exited", "crashed"}
                  /\ ppc'[i] \in {"exited", "crashed"})
                => cancelled \/ (ppc[i] = "check" /\ nameErrs = maxErrs)]_vars

\* C10: a Joke() call that has left its outer select ends, whatever the
\* background goroutines do or fail to do, as long as every step the
\* caller can take is eventually taken.
C10_JokeCompletes ==
    \A k \in Callers :
        (jpc[k] \in {"inner", "fetchName", "fetchJoke"})
            ~> (jpc[k] \in {"done", "crashed"})

\* A call at its inner select with nameChan empty after RunCache and all
\* its goroutines have returned: nothing will ever be sent on nameChan.
C10_Witness ==
    \E k \in Callers :
        /\ jpc[k] = "inner"
        /\ nameChan = <<>>
        /\ run = "returned"

\* The retry delays fetchName can put into a rateLimitError.
RetryDelays == { RetryDelay(h) : h \in RetryAfterHeaders }

\* C11, the steps: a fetchName of a Joke() call that returns an error ends
\* the call in that step with the empty string and no joke fetch, a
\* rateLimitError with the retry delay fetchName computed and no ticker
\* touched; a fetchJoke that returns ends the call in that step.
C11_FetchSteps(k) ==
    /\ jnf'[k] = jnf[k] + 1
          => /\ jpc[k] = "fetchName"
             /\ \/ jpc'[k] = "fetchJoke" /\ jres'[k] = NoRet
                \/ /\ jpc'[k] = "done"
                   /\ jjf'[k] = 0
                   /\ jres'[k] = RetError
                         \/ \E r \in RetryDelays : jres'[k] = RetRateLimit(r)
                   /\ UNCHANGED <<ptimer, pwaited>>
    /\ jjf'[k] = jjf[k] + 1
          => /\ jpc[k] = "fetchJoke"
             /\ jpc'[k] = "done"
             /\ jres'[k].err = "nil" \/ jres'[k] = RetError
    /\ (jpc[k] = "fetchName" /\ jpc'[k] \in {"fetchJoke", "done"})
          => jnf'[k] = jnf[k] + 1
    /\ (jpc[k] = "fetchJoke" /\ jpc'[k] = "done") => jjf'[k] = jjf[k] + 1

\* C11: one Joke() call makes at most one name fetch and at most one joke
\* fetch, a failed fetch ends the call at once with ("", err), and a
\* rateLimitError of the name fetch is handed to the caller as it is.
C11_NoHiddenRetry ==
    /\ [][\A k \in Callers : C11_FetchSteps(k)]_vars
    /\ [](\A k \in Callers :
             /\ jnf[k] <= 1
             /\ jjf[k] <= 1
             /\ (jpc[k] = "done" /\ jres[k].err # "nil")
                   => jres[k].str = NoJoke)

\* A call answered with the rateLimitError of a Retry-After: 2 response.
C11_Witness ==
    \E k \in Callers :
        /\ jpc[k] = "done"
        /\ jres[k] = RetRateLimit(2)
        /\ jnf[k] = 1
        /\ jjf[k] = 0

\* q changes only by a send at its tail or a receive at its head.
FifoStep(q, qn) ==
    qn # q
       => \/ Len(qn) = Len(q) + 1 /\ SubSeq(qn, 1, Len(q)) = q
          \/ q # <<>> /\ qn = Tail(q)

\* C12, composer i: it receives the head of nameChan, holds that one name
\* until its push, and sends that name's joke at the tail of jokeChan.
C12_ComposerSteps(i) ==
    /\ (cpc[i] = "pop" /\ cpc'[i] = "fetch")
          => cname'[i] = Head(nameChan) /\ nameChan' = Tail(nameChan)
    /\ (cpc[i] \in {"fetch", "check", "push"}
            /\ cpc'[i] \in {"fetch", "check", "push"})
          => cname'[i] = cname[i] /\ cname[i] # NoName
    /\ (cpc[i] = "push" /\ cpc'[i] = "pop")
          => jokeChan' = Append(jokeChan, JokeText(cname[i]))

\* The names in the pipeline of a single worker slot, from the joke that
\* leaves jokeChan next to the name the producer is about to send.
PipelineNames ==
    [n \in 1..Len(jokeChan) |-> jokeChan[n][1]]
       \o (IF cname[1] = NoName THEN <<>> ELSE <<cname[1].Name>>)
       \o [n \in 1..Len(nameChan) |-> nameChan[n].Name]
       \o (IF pname[1] = NoName THEN <<>> ELSE <<pname[1].Name>>)

\* C12: both channels are first in, first out, and a composer sends its
\* jokes in the order in which it received their names; with one worker
\* slot the whole pipeline therefore holds its names in the order in which
\* the name service handed them out.
C12_Fifo ==
    /\ [][/\ FifoStep(nameChan, nameChan')
          /\ FifoStep(jokeChan, jokeChan')
          /\ \A i \in Workers : C12_ComposerSteps(i)
          /\ \A k \in Callers :
                (jpc[k] = "idle" /\ jokeChan' # jokeChan /\ jpc'[k] = "done")
                   => jres'[k] = RetJoke(Head(jokeChan))]_vars
    /\ [](numWorkers = 1
            => \A a, b \in 1..Len(PipelineNames) :
                   a < b => PipelineNames[a] < PipelineNames[b])

\* The single composer has sent the jokes of two names, in their order.
C12_Witness ==
    /\ numWorkers = 1
    /\ jokeChan = <<JokeText(NameResp(1)), JokeText(NameResp(2))>>

\* C13, as claimed: RunCache has returned only if the context is cancelled.
C13_ReturnsOnlyAfterCancel == run = "returned" => cancelled

\* C13, amended: RunCache returns only after all its goroutines have, and a
\* goroutine returns only on cancellation or on reading nameErrs == maxErrs
\* after a failed fetch; so RunCache returns before cancellation only with
\* the name-stage counter at maxErrs.
C13_ReturnsAfterCancelOrThreshold ==
    /\ [][\A i \in Workers :
             /\ (ppc[i] # "exited" /\ ppc'[i] = "exited")
                   => cancelled \/ (ppc[i] = "check" /\ nameErrs = maxErrs)
             /\ (cpc[i] # "exited" /\ cpc'[i] = "exited")
                   => cancelled \/ (cpc[i] = "check" /\ nameErrs = maxErrs)]_vars
    /\ [](run = "returned"
            => /\ AllWorkersExited
               /\ cancelled \/ nameErrs = maxErrs)

\* RunCache has returned with the context never cancelled.
C13_Witness == run = "returned" /\ ~cancelled /\ nameErrs = maxErrs

\* The jokes the joke service makes from the names the name service has
\* handed out so far.
JokesOfFetchedNames == { JokeText(NameResp(n)) : n \in 1..nextName }

\* C14: with healthy upstreams every Joke() call that ends before the
\* context is cancelled, on any of its three paths and with other calls
\* running, returns no error and a joke made from a fetched name.
C14_HealthyCallsSucceed ==
    \A k \in Callers :
        (jpc[k] = "done" /\ ~cancelled)
           => /\ jres[k].err = "nil"
              /\ jres[k].str \in JokesOfFetchedNames
              /\ jpath[k] \in {"hit", "partial", "miss"}

\* Two calls have ended while RunCache runs, one served from jokeChan and
\* one that fetched both name and joke itself.
C14_Witness ==
    /\ run = "running"
    /\ ~cancelled
    /\ \E k, l \in Callers :
          /\ jpc[k] = "done" /\ jpath[k] = "hit"
          /\ jpc[l] = "done" /\ jpath[l] = "miss"
          /\ jres[k].str # jres[l].str

\* C15: in no window of 60 seconds do the name producers issue more than
\* 6 name fetches.
C15_QuotaKept == window.fetches <= quotaPerMinute

\* Both channels are full and every goroutine of RunCache is in its push
\* select with an item to send.
Filled ==
    /\ run = "running"
    /\ Len(nameChan) = bufLen
    /\ Len(jokeChan) = bufLen
    /\ \A i \in 1..numWorkers : ppc[i] = "push" /\ cpc[i] = "push"

\* C16: with healthy upstreams, no Joke() call and no cancellation the
\* pipeline fills up: both channels full, every producer and composer
\* blocked in its push; and while nothing is taken from a channel no
\* goroutine fetches, sends or drops anything.
C16_FillThenBlock ==
    /\ <>Filled
    /\ [][Filled => (Filled' /\ UNCHANGED <<nextName, chanVars, pname,
                                            cname, cjoke>>)]_vars
    /\ [](Len(nameChan) <= bufLen /\ Len(jokeChan) <= bufLen)

\* The filled pipeline of two worker slots with channels of capacity 2:
\* eight names fetched, the name service has more.
C16_Witness ==
    /\ Filled
    /\ bufLen = 2
    /\ numWorkers = 2
    /\ nextName = 2 * bufLen + 2 * numWorkers
    /\ nextName < FillNames

C18_ProducerBlocked(i) ==
    (ppc[i] = "push" /\ Len(nameChan) = bufLen)
       => /\ ppc'[i] \in {"push", "exited", "crashed"}
          /\ ppc'[i] = "exited" => cancelled
          /\ ppc'[i] = "push" => pname'[i] = pname[i] /\ pname[i] # NoName
          /\ nameChan' = nameChan \/ nameChan' = Tail(nameChan)

\* C18, a composer in its push select with jokeChan full, likewise.
C18_ComposerBlocked(i) ==
    (cpc[i] = "push" /\ Len(jokeChan) = bufLen)
       => /\ cpc'[i] \in {"push", "exited", "crashed"}
          /\ cpc'[i] = "exited" => cancelled
          /\ cpc'[i] = "push" => cjoke'[i] = cjoke[i] /\ cjoke[i] # NoJoke
          /\ jokeChan' = jokeChan \/ jokeChan' = Tail(jokeChan)

\* C18: neither channel ever holds more than bufLen items, and a goroutine
\* whose send finds its channel full keeps its item and does nothing else
\* until there is room or the context is cancelled.
C18_BoundedQueues ==
    /\ [](Len(nameChan) <= bufLen /\ Len(jokeChan) <= bufLen)
    /\ [][\A i \in Workers :
             C18_ProducerBlocked(i) /\ C18_ComposerBlocked(i)]_vars

\* A composer holding a joke at a full jokeChan, the context not cancelled.
C18_Witness ==
    \E i \in Workers :
        /\ cpc[i] = "push"
        /\ cjoke[i] # NoJoke
        /\ Len(jokeChan) = bufLen
        /\ ~cancelled

\* A step in which a goroutine of RunCache sends on or receives from a
\* channel.
WorkerQueueStep(i) ==
    \/ ppc[i] = "push" /\ ppc'[i] = "pace"
    \/ cpc[i] = "pop" /\ cpc'[i] = "fetch"
    \/ cpc[i] = "push" /\ cpc'[i] = "pop"

\* C19: once the context is cancelled no producer sends a name, no
\* composer receives a name and no composer sends a joke.
C19_NoActivityAfterCancel ==
    [][cancelled => \A i \in Workers : ~WorkerQueueStep(i)]_vars

\* The producers that see a failed name fetch in this step.
FailuresObserved ==
    Cardinality({i \in Workers : ppc[i] = "fetch" /\ ppc'[i] = "check"})

\* C20: every failed name fetch of every producer adds one to nameErrs, so
\* that the counter is the number of failures seen so far, and a producer
\* that tests the counter after its failure and goes on has not found it
\* at or beyond maxErrs.
C20_NoLostUpdates ==
    [][/\ nameErrs + FailuresObserved <= maxErrs + ErrsOver
             => nameErrs' = nameErrs + FailuresObserved
       /\ \A i \in Workers :
             (ppc[i] = "check" /\ ppc'[i] = "fetch") => nameErrs < maxErrs]_vars

\* Name fetches per minute a producer that sleeps d seconds after each
\* push can issue.
FetchesPerMinute(d) == secondsPerMinute \div d

\* C21: whatever numWorkers is, once RunCache has been called its
\* sleepInterval was computed without a division by zero, is positive,
\* and lets the producers together fetch at most 6 names a minute.
C21_PacingDefined ==
    run # "notstarted"
       => /\ run # "crashed"
          /\ SleepInterval(numWorkers) > 0
          /\ numWorkers * FetchesPerMinute(SleepInterval(numWorkers))
                <= quotaPerMinute

\* C22: a producer that has sent its name waits on its pacing ticker; it
\* fetches again only after 60 / (6 / numWorkers) seconds of waiting, and
\* leaves the wait otherwise only by returning on cancellation (or with
\* the process).
C22_SteadyPacing ==
    [][\A i \in Workers :
          /\ (ppc[i] = "push" /\ ppc'[i] # "push")
                => ppc'[i] \in {"pace", "exited", "crashed"}
          /\ ppc[i] = "pace"
                => /\ ppc'[i] \in {"pace", "fetch", "exited", "crashed"}
                   /\ ppc'[i] = "fetch"
                         => pwaited[i] >= secondsPerMinute
                                             \div (quotaPerMinute \div numWorkers)
                   /\ ppc'[i] = "exited" => cancelled
                   /\ ppc'[i] = "pace" => pwaited'[i] >= pwaited[i]]_vars

\* One of four producers five seconds short of its 60-second wait.
C22_Witness ==
    /\ numWorkers = 4
    /\ ~cancelled
    /\ \E i \in Workers :
          ppc[i] = "pace" /\ pwaited[i] = 55 /\ ptimer[i] = 5

\* C23, the steps of composer i between its receive and its send: it keeps
\* the name it received, the joke it gets is that name's, it sends that
\* joke and nothing else, and only after the send is it back at its
\* receive.
C23_KeepsName(i) ==
    /\ (cpc[i] \in {"fetch", "check", "push"}
            /\ cpc'[i] \in {"fetch", "check", "push"})
          => cname'[i] = cname[i]
    /\ (cpc[i] \in {"fetch", "check"}) => cpc'[i] # "pop"
    /\ (cpc[i] = "fetch" /\ cpc'[i] = "push")
          => cjoke'[i] = JokeText(cname[i])
    /\ (cpc[i] = "push" /\ cpc'[i] = "pop")
          => /\ jokeChan' = Append(jokeChan, JokeText(cname[i]))
             /\ cname'[i] = NoName
             /\ cjoke'[i] = NoJoke

\* C23: a composer never drops or swaps its name.
C23_ComposerKeepsName ==
    /\ [][\A i \in Workers : C23_KeepsName(i)]_vars
    /\ [](\A i \in Workers :
             /\ cpc[i] \in {"fetch", "check", "push"} => cname[i] # NoName
             /\ cpc[i] = "push" => cjoke[i] = JokeText(cname[i])
             /\ cpc[i] = "pop" => cname[i] = NoName /\ cjoke[i] = NoJoke)

\* The single composer about to send the joke of the first name after a
\* joke fetch of it has failed.
C23_Witness ==
    /\ numWorkers = 1
    /\ cpc[1] = "push"
    /\ jokeErrs = 1
    /\ cname[1] = NameResp(1)
    /\ cjoke[1] = JokeText(NameResp(1))

\* C24: RunCache has returned only if every producer and every composer of
\* its numWorkers slots has returned, and none of them takes a step after.
C24_JoinsAllWorkers ==
    /\ [](run = "returned"
            => \A i \in Workers :
                  /\ i <= numWorkers => ppc[i] = "exited" /\ cpc[i] = "exited"
                  /\ i > numWorkers => ppc[i] = "none" /\ cpc[i] = "none")
    /\ [][run = "returned"
            => UNCHANGED <<run, prodVars, compVars, errVars>>]_vars

\* RunCache has returned after the cancellation of two worker slots.
C24_Witness ==
    /\ run = "returned"
    /\ numWorkers = 2
    /\ cancelled
    /\ \A i \in Workers : ppc[i] = "exited" /\ cpc[i] = "exited"

\* A step of caller k's Joke() call.
CallerStep(k) == jpc'[k] # jpc[k] /\ jpc'[k] # "crashed"

\* C25: no step of a Joke() call, a failed fetch included, changes
\* nameErrs or jokeErrs or moves a producer or a composer.
C25_ForegroundNotCounted ==
    [][\A k \in Callers :
          CallerStep(k) => UNCHANGED <<errVars, ppc, cpc, run>>]_vars

\* A call whose name fetch failed while RunCache runs, no error counted.
C25_Witness ==
    /\ run = "running"
    /\ nameErrs = 0
    /\ jokeErrs = 0
    /\ \E k \in Callers :
          jpc[k] = "done" /\ jres[k] = RetError /\ jnf[k] = 1 /\ jjf[k] = 0

\* The names the producers fetched that are still in the pipeline: held by
\* a producer for its send, in nameChan, held by a composer, or in
\* jokeChan as a joke.
InPipeline ==
    Cardinality({i \in Workers : pname[i] # NoName}) + Len(nameChan)
       + Cardinality({i \in Workers : cname[i] # NoName}) + Len(jokeChan)

PipelineCapacity == 2 * bufLen + 2 * numWorkers

\* C26: the pipeline never holds more than 2 * bufLen + 2 * numWorkers
\* names, and with nobody taking jokes or names out of it the producers'
\* successful name fetches are those names and no more.
C26_BoundedPrefetch ==
    /\ InPipeline <= PipelineCapacity
    /\ nextName = InPipeline

\* Two worker slots and channels of capacity 1 hold six names; the name
\* service has more.
C26_Witness ==
    /\ numWorkers = 2
    /\ bufLen = 1
    /\ InPipeline = PipelineCapacity
    /\ nextName = 6
    /\ nextName < FillNames

\* Who holds which name, as the name's number (0: nothing held): each
\* producer, each slot of nameChan, each composer, each slot of jokeChan
\* (the name its joke was made from), and each Joke() call (the name it
\* took or fetched, or the name of the joke it took from jokeChan).
HeldNames ==
    [i \in Workers |-> pname[i].Name]
       \o [n \in 1..Len(nameChan) |-> nameChan[n].Name]
       \o [i \in Workers |-> cname[i].Name]
       \o [n \in 1..Len(jokeChan) |-> jokeChan[n][1]]
       \o [k \in Callers |->
              IF jname[k] # NoName THEN jname[k].Name
              ELSE IF jres[k].err = "nil" THEN jres[k].str[1]
              ELSE 0]

\* C27: no name is in two hands at once, whether as a name or as its
\* joke: what a composer or a Joke() call takes from a channel nobody else
\* takes; and a joke a call returns is the joke of a name that was
\* fetched, taken by this call from the head of jokeChan or made by its
\* own joke fetch.
C27_ExactlyOnce ==
    /\ [](\A a, b \in 1..Len(HeldNames) :
             (a # b /\ HeldNames[a] # 0) => HeldNames[a] # HeldNames[b])
    /\ [](\A k \in Callers :
             (jpc[k] = "done" /\ jres[k].err = "nil")
                => /\ jres[k].str \in JokesOfFetchedNames
                   /\ jpath[k] = "hit" => jjf[k] = 0
                   /\ jpath[k] # "hit" => jjf[k] = 1)
    /\ [][\A k \in Callers :
             (jpc[k] = "idle" /\ jpc'[k] = "done" /\ jres'[k].err = "nil")
                => /\ jokeChan # <<>>
                   /\ jres'[k].str = Head(jokeChan)
                   /\ jokeChan' = Tail(jokeChan)]_vars

\* Two calls at once, one with the joke it took from jokeChan, the other
\* with the name it took from nameChan.
C27_Witness ==
    \E k, l \in Callers :
        /\ jpc[k] = "done" /\ jpath[k] = "hit"
        /\ jres[k].str = JokeText(NameResp(1))
        /\ jpc[l] = "fetchJoke" /\ jpath[l] = "partial"
        /\ jname[l] = NameResp(2)

\* A step in which producer i's fetchName call returns a name.
ProducerFetchSucceeds(i) ==
    ppc[i] = "fetch" /\ ppc'[i] = "push"

\* C28: nameErrs counts the failed name fetches since the start and is
\* never reset: no step lowers it, a successful fetch leaves it as it is,
\* and a producer whose fetch failed when the failures so far number
\* maxErrs or more terminates instead of fetching again.
C28_CumulativeThreshold ==
    [][/\ nameErrs' >= nameErrs
       /\ \A i \in Workers : ProducerFetchSucceeds(i) => nameErrs' = nameErrs
       /\ \A i \in Workers :
             (ppc[i] = "check" /\ nameErrs >= maxErrs) => ppc'[i] # "fetch"]_vars

\* Joke() call k is past the receive of a name from nameChan.
HoldsQueuedName(k) ==
    jpath[k] = "partial" /\ jpc[k] \in {"fetchJoke", "done"}

\* C29: a Joke() call that took a name from nameChan took it off the head;
\* when its joke fetch fails the call ends with the error and puts nothing
\* into either channel, then or when it returns, so that the name it took
\* is in nameChan no more.
C29_NameConsumedOnFailure ==
    /\ [][\A k \in Callers :
             /\ (jpc[k] = "inner" /\ jpc'[k] = "fetchJoke"
                                  /\ jpath'[k] = "partial")
                   => /\ nameChan # <<>>
                      /\ jname'[k] = Head(nameChan)
                      /\ nameChan' = Tail(nameChan)
                      /\ jokeChan' = jokeChan
             /\ (HoldsQueuedName(k) /\ jpc[k] = "fetchJoke"
                                    /\ jpc'[k] = "done"
                                    /\ jres'[k].err # "nil")
                   => /\ jres'[k] = RetError
                      /\ UNCHANGED chanVars
             /\ (HoldsQueuedName(k) /\ jpc[k] = "done" /\ jpc'[k] = "idle")
                   => UNCHANGED chanVars]_vars
    /\ [](\A k \in Callers :
             HoldsQueuedName(k)
                => \A n \in 1..Len(nameChan) : nameChan[n] # jname[k])

\* A call that took the first name from nameChan has failed to fetch its
\* joke; nameChan has room.
C29_Witness ==
    \E k \in Callers :
        /\ jpc[k] = "done" /\ jpath[k] = "partial"
        /\ jres[k] = RetError
        /\ jname[k] = NameResp(1)
        /\ Len(nameChan) < bufLen

\* A step in which producer i's fetchName call returns a rateLimitError.
ProducerRateLimited(i) ==
    /\ ppc[i] = "fetch"
    /\ ppc'[i] \in {"backoff", "crashed"}
    /\ (panicked' /\ ~panicked) => BackoffSeconds(pretry'[i]) <= 0

\* C30: whatever the Retry-After header of a 429 answer holds, the wait
\* the producer starts is retry + 5 seconds and more than zero, so that
\* the ticker it makes for the wait is made.
C30_BackoffPositive ==
    [][\A i \in Workers :
          ProducerRateLimited(i)
             => /\ BackoffSeconds(pretry'[i]) > 0
                /\ ptimer'[i] = BackoffSeconds(pretry'[i])
                /\ ppc'[i] = "backoff"]_vars

====
